---- MODULE Spec2Model ----
(***************************************************************************)
(* A model of penmon's eto.py: a Station, its registry of DayEntry records, *)
(* the Climate objects it refers to, the two module-level range switches,   *)
(* and the estimation cascade of DayEntry.                                  *)
(*                                                                          *)
(* Python values are records tagged by k:                                   *)
(*   none, false, nan, num (an exact number, v, in the unit of the          *)
(*   quantity), term (a number the model keeps symbolic: the formula f      *)
(*   applied to the arguments a), raise (an exception of type t with        *)
(*   message m).                                                            *)
(* Units: temperatures in 1/100 degree C, radiation, sunshine hours and     *)
(* wind speed in 1/10, vapour pressure in 1/1000 kPa, humidity in percent,  *)
(* angles in 1/1000 rad, latitude in 1/100 degree, k_rs in 1/100.           *)
(***************************************************************************)
EXTENDS Integers, Sequences, FiniteSets, TLC

VARIABLES
    station,                    \* the Station object
    climates,                   \* the Climate objects created so far, by identity
    days,                       \* station.days: day number -> DayEntry
    CHECK_RADIATION_RANGE,      \* module-level switch
    CHECK_SUNSHINE_HOURS_RANGE, \* module-level switch
    last,                       \* the last call made and its outcome
    ops                         \* number of calls made so far

vars == <<station, climates, days, CHECK_RADIATION_RANGE,
          CHECK_SUNSHINE_HOURS_RANGE, last, ops>>

-----------------------------------------------------------------------------
(* Python values *)

None == [k |-> "none"]
False == [k |-> "false"]
NaN == [k |-> "nan"]
Num(v) == [k |-> "num", v |-> v]
Term(f, a) == [k |-> "term", f |-> f, a |-> a]
Raise(t, m) == [k |-> "raise", t |-> t, m |-> m]

IsNone(x) == x.k = "none"
IsNum(x) == x.k = "num"
IsNaN(x) == x.k = "nan"
IsRaise(x) == x.k = "raise"
IsValue(x) == x.k \in {"num", "term", "nan"}

\* Python truthiness of a field: None, False and 0 are falsy; nan is truthy.
Truthy(x) == x.k \in {"nan", "term"} \/ (x.k = "num" /\ x.v # 0)

\* round(n/d, .) of an exact quotient, d > 0: nearest, ties to even.
RoundDiv(n, d) ==
    LET q == n \div d
        r == n % d
    IN  IF 2 * r < d THEN q
        ELSE IF 2 * r > d THEN q + 1
        ELSE IF q % 2 = 0 THEN q ELSE q + 1

\* A float expression the model keeps symbolic: nan if an operand is nan.
Arith(f, a) ==
    IF \E i \in DOMAIN a : IsNaN(a[i]) THEN NaN ELSE Term(f, a)

\* The messages of the exceptions Python itself raises.
NoneOperand == "unsupported operand type(s): NoneType"
NotAnException == "exceptions must derive from BaseException"
MathDomain == "math domain error"
ComplexRound == "type complex doesn't define __round__ method"

-----------------------------------------------------------------------------
(* Climate *)

\* Climate.__init__
Climate ==
    [interior_location |-> TRUE, coastal_location |-> FALSE,
     island_location |-> FALSE, arid_climate |-> TRUE, humid_climate |-> FALSE,
     dew_point_difference |-> 200, average_wind_speed |-> 20, k_rs |-> 16]

light_winds(c) == [c EXCEPT !.average_wind_speed = 5]
moderate_winds(c) == [c EXCEPT !.average_wind_speed = 20]
strong_winds(c) == [c EXCEPT !.average_wind_speed = 40]
arid(c) ==
    [c EXCEPT !.arid_climate = TRUE, !.humid_climate = FALSE,
              !.dew_point_difference = 200]
humid(c) ==
    [c EXCEPT !.arid_climate = FALSE, !.humid_climate = TRUE,
              !.dew_point_difference = 0]
interior(c) ==
    [c EXCEPT !.interior_location = TRUE, !.coastal_location = FALSE,
              !.island_location = FALSE, !.k_rs = 16]
coastal(c) ==
    [c EXCEPT !.interior_location = FALSE, !.coastal_location = TRUE,
              !.island_location = FALSE, !.k_rs = 19]
\* island with the assignment of k_rs left out
island_keeps_krs(c) ==
    [c EXCEPT !.interior_location = FALSE, !.coastal_location = FALSE,
              !.island_location = TRUE]

island(c) ==
    [c EXCEPT !.interior_location = FALSE, !.coastal_location = FALSE,
              !.island_location = TRUE, !.k_rs = 19]

Mutators ==
    {"light_winds", "moderate_winds", "strong_winds", "arid", "humid",
     "interior", "coastal", "island"}

Mutate(m, c) ==
    CASE m = "light_winds" -> light_winds(c)
      [] m = "moderate_winds" -> moderate_winds(c)
      [] m = "strong_winds" -> strong_winds(c)
      [] m = "arid" -> arid(c)
      [] m = "humid" -> humid(c)
      [] m = "interior" -> interior(c)
      [] m = "coastal" -> coastal(c)
      [] m = "island" -> island(c)

\* A reference to a Climate object is its index in climates; 0 is None.
NoClimate == 0

\* Crop.__init__ with its defaults (albedo and height in 1/100)
Crop == [resistance_a |-> 208, albedo |-> 23, height |-> 12]

-----------------------------------------------------------------------------
(* Station and DayEntry objects *)

\* Station.__init__ with valid arguments. id is the identity of the object:
\* the station the caller works with is object 1.
Station(latitude, altitude, anemometer_height) ==
    [id |-> 1, latitude |-> latitude, altitude |-> altitude,
     anemometer_height |-> anemometer_height, climate |-> 1, ref_crop |-> Crop]

\* DayEntry.__init__: every raw field None, climate = station.climate, and
\* station a reference to the Station object.
DayEntry(day_number, st) ==
    [day_number |-> day_number, station |-> st.id,
     temp_min |-> None, temp_max |-> None, temp_mean |-> None,
     humidity_mean |-> None, humidity_min |-> None, humidity_max |-> None,
     wind_speed |-> None, radiation_s |-> None,
     temp_dew |-> None, temp_dry |-> None, temp_wet |-> None,
     climate |-> st.climate,
     vapour_pressure |-> None, sunshine_hours |-> None]

RawFields ==
    {"temp_min", "temp_max", "temp_mean", "humidity_mean", "humidity_min",
     "humidity_max", "wind_speed", "radiation_s", "temp_dew", "temp_dry",
     "temp_wet", "vapour_pressure", "sunshine_hours"}

\* self.<field> = value
SetField(self, f, x) ==
    CASE f = "temp_min" -> [self EXCEPT !.temp_min = x]
      [] f = "temp_max" -> [self EXCEPT !.temp_max = x]
      [] f = "temp_mean" -> [self EXCEPT !.temp_mean = x]
      [] f = "humidity_mean" -> [self EXCEPT !.humidity_mean = x]
      [] f = "humidity_min" -> [self EXCEPT !.humidity_min = x]
      [] f = "humidity_max" -> [self EXCEPT !.humidity_max = x]
      [] f = "wind_speed" -> [self EXCEPT !.wind_speed = x]
      [] f = "radiation_s" -> [self EXCEPT !.radiation_s = x]
      [] f = "temp_dew" -> [self EXCEPT !.temp_dew = x]
      [] f = "temp_dry" -> [self EXCEPT !.temp_dry = x]
      [] f = "temp_wet" -> [self EXCEPT !.temp_wet = x]
      [] f = "vapour_pressure" -> [self EXCEPT !.vapour_pressure = x]
      [] f = "sunshine_hours" -> [self EXCEPT !.sunshine_hours = x]

-----------------------------------------------------------------------------
(* Values of the transcendental expressions of eto.py at the model's        *)
(* latitudes, altitudes, day numbers and temperatures.                      *)

\* round(1 + 0.033 * cos(2 pi / 365 * day_number), 3), by day number
RelativeSunDistanceTable ==
    (1 :> 1033 @@ 105 :> 992 @@ 172 :> 968 @@ 229 :> 977 @@ 355 :> 1033 @@
     366 :> 1033)

\* round(0.409 * sin(2 pi / 365 * day_number - 1.39), 3), by day number
SolarDeclinationTable ==
    (1 :> -401 @@ 105 :> 166 @@ 172 :> 409 @@ 229 :> 227 @@ 355 :> -409 @@
     366 :> -401)

\* -tan(latitude_rad) * tan(solar_declination) in 1/10000, by latitude and
\* day number
AcosArgumentTable ==
    (<<-9000, 1>> :> 20816310 @@ <<-9000, 105>> :> -8226009 @@
     <<-9000, 172>> :> -21281288 @@ <<-9000, 229>> :> -11340770 @@
     <<-9000, 355>> :> 21281288 @@ <<-9000, 366>> :> 20816310 @@
     <<-7000, 1>> :> -11658 @@ <<-7000, 105>> :> 4607 @@
     <<-7000, 172>> :> 11919 @@ <<-7000, 229>> :> 6351 @@
     <<-7000, 355>> :> -11919 @@ <<-7000, 366>> :> -11658 @@ <<0, 1>> :> 0 @@
     <<0, 105>> :> 0 @@ <<0, 172>> :> 0 @@ <<0, 229>> :> 0 @@
     <<0, 355>> :> 0 @@ <<0, 366>> :> 0 @@ <<4142, 1>> :> 3741 @@
     <<4142, 105>> :> -1478 @@ <<4142, 172>> :> -3825 @@
     <<4142, 229>> :> -2038 @@ <<4142, 355>> :> 3825 @@
     <<4142, 366>> :> 3741 @@ <<6650, 1>> :> 9760 @@
     <<6650, 105>> :> -3857 @@ <<6650, 172>> :> -9978 @@
     <<6650, 229>> :> -5317 @@ <<6650, 355>> :> 9978 @@
     <<6650, 366>> :> 9760 @@ <<6660, 1>> :> 9787 @@
     <<6660, 105>> :> -3868 @@ <<6660, 172>> :> -10006 @@
     <<6660, 229>> :> -5332 @@ <<6660, 355>> :> 10006 @@
     <<6660, 366>> :> 9787 @@ <<7000, 1>> :> 11658 @@
     <<7000, 105>> :> -4607 @@ <<7000, 172>> :> -11919 @@
     <<7000, 229>> :> -6351 @@ <<7000, 355>> :> 11919 @@
     <<7000, 366>> :> 11658 @@ <<9000, 1>> :> -20816310 @@
     <<9000, 105>> :> 8226009 @@ <<9000, 172>> :> 21281288 @@
     <<9000, 229>> :> 11340770 @@ <<9000, 355>> :> -21281288 @@
     <<9000, 366>> :> -20816310)

\* round(acos(-tan(latitude_rad) * tan(solar_declination)), 3), where the
\* arccosine is defined
SunsetHourAngleTable ==
    (<<-7000, 105>> :> 1092 @@ <<-7000, 229>> :> 883 @@ <<0, 1>> :> 1571 @@
     <<0, 105>> :> 1571 @@ <<0, 172>> :> 1571 @@ <<0, 229>> :> 1571 @@
     <<0, 355>> :> 1571 @@ <<0, 366>> :> 1571 @@ <<4142, 1>> :> 1187 @@
     <<4142, 105>> :> 1719 @@ <<4142, 172>> :> 1963 @@
     <<4142, 229>> :> 1776 @@ <<4142, 355>> :> 1178 @@
     <<4142, 366>> :> 1187 @@ <<6650, 1>> :> 219 @@ <<6650, 105>> :> 1967 @@
     <<6650, 172>> :> 3076 @@ <<6650, 229>> :> 2131 @@ <<6650, 355>> :> 66 @@
     <<6650, 366>> :> 219 @@ <<6660, 1>> :> 207 @@ <<6660, 105>> :> 1968 @@
     <<6660, 229>> :> 2133 @@ <<6660, 366>> :> 207 @@
     <<7000, 105>> :> 2050 @@ <<7000, 229>> :> 2259)

\* Eq. 21 rounded to 1 decimal
RaTable ==
    (<<-7000, 105>> :> 48 @@ <<-7000, 229>> :> 26 @@ <<0, 1>> :> 357 @@
     <<0, 105>> :> 368 @@ <<0, 172>> :> 334 @@ <<0, 229>> :> 358 @@
     <<0, 355>> :> 356 @@ <<0, 366>> :> 357 @@ <<4142, 1>> :> 130 @@
     <<4142, 105>> :> 343 @@ <<4142, 172>> :> 419 @@ <<4142, 229>> :> 360 @@
     <<4142, 355>> :> 126 @@ <<4142, 366>> :> 130 @@ <<6650, 1>> :> 0 @@
     <<6650, 105>> :> 246 @@ <<6650, 172>> :> 417 @@ <<6650, 229>> :> 282 @@
     <<6650, 355>> :> 0 @@ <<6650, 366>> :> 0 @@ <<6660, 1>> :> 0 @@
     <<6660, 105>> :> 246 @@ <<6660, 229>> :> 282 @@ <<6660, 366>> :> 0 @@
     <<7000, 105>> :> 230 @@ <<7000, 229>> :> 270)

\* round((0.25 + 0.50) * r_a, 1), by r_a: the float decides the last decimal
\* where 0.75 * r_a falls half way between two tenths
ClearSkyFractionTable ==
    (0 :> 0 @@ 26 :> 20 @@ 48 :> 36 @@ 126 :> 94 @@ 130 :> 98 @@
     230 :> 172 @@ 246 :> 185 @@ 270 :> 202 @@ 282 :> 211 @@ 334 :> 250 @@
     343 :> 257 @@ 356 :> 267 @@ 357 :> 268 @@ 358 :> 268 @@ 360 :> 270 @@
     368 :> 276 @@ 417 :> 313 @@ 419 :> 314)

\* round(101.3 * ((293 - 0.0065 * altitude) / 293) ** 5.26, 2), by altitude
AtmosphericPressureTable == (10 :> 10118 @@ 109 :> 10002)

\* round(0.6108 * 2.7183 ** (17.27 * T / (T + 237.3)), 3), by temperature
SvpTable ==
    (-200 :> 527 @@ 0 :> 611 @@ 200 :> 706 @@ 1000 :> 1228 @@ 1300 :> 1498
     @@ 1500 :> 1705
     @@ 1595 :> 1813 @@ 1780 :> 2038 @@ 1950 :> 2267 @@ 1980 :> 2310
     @@ 2000 :> 2338 @@ 2485 :> 3140 @@ 2500 :> 3168 @@ 2560 :> 3283
     @@ 2990 :> 4219 @@ 3000 :> 4243)

\* 4.87 / ln(67.8 * anemometer_height - 5.42) in 1/100000, by height
WindProfileTable == (10 :> 74795)

\* math.pi in 1/1000000
PiMicro == 3141593

-----------------------------------------------------------------------------
(* Station methods *)

\* Station.atmospheric_pressure (Eq. 7), in 1/100 kPa
StationAtmosphericPressure == Num(AtmosphericPressureTable[station.altitude])

-----------------------------------------------------------------------------
(* DayEntry: solar geometry *)

relative_sun_distance(self) == Num(RelativeSunDistanceTable[self.day_number])

solar_declination(self) == Num(SolarDeclinationTable[self.day_number])

\* math.acos raises ValueError outside [-1, 1]
sunset_hour_angle(self) ==
    LET x == AcosArgumentTable[<<station.latitude, self.day_number>>]
    IN  IF x < -10000 \/ x > 10000
        THEN Raise("ValueError", MathDomain)
        ELSE Num(SunsetHourAngleTable[<<station.latitude, self.day_number>>])

r_a(self) ==
    LET ws == sunset_hour_angle(self)
    IN  IF IsRaise(ws) THEN ws
        ELSE Num(RaTable[<<station.latitude, self.day_number>>])

\* round((24 / math.pi) * sunset_hour_angle, 1)
daylight_hours(self) ==
    LET ws == sunset_hour_angle(self)
    IN  IF IsRaise(ws) THEN ws
        ELSE Num(RoundDiv(240000 * ws.v, PiMicro))

clear_sky_rad(self) ==
    LET ra == r_a(self)
    IN  IF IsRaise(ra) THEN ra
        ELSE IF station.altitude < 100
        THEN Num(ClearSkyFractionTable[ra.v])
        ELSE Num(RoundDiv((75000 + 2 * station.altitude) * ra.v, 100000))

-----------------------------------------------------------------------------
(* DayEntry: wind, temperature, vapour pressure *)

\* wind_speed_2m with the anemometer height ignored
wind_speed_2m_uncorrected(self) ==
    IF Truthy(self.wind_speed) THEN self.wind_speed
    ELSE IF station.climate # NoClimate
    THEN Num(climates[station.climate].average_wind_speed)
    ELSE None

wind_speed_2m(self) ==
    IF Truthy(self.wind_speed)
    THEN IF station.anemometer_height = 2
         THEN self.wind_speed
         ELSE IF IsNaN(self.wind_speed) THEN NaN
         ELSE Num(RoundDiv(self.wind_speed.v
                           * WindProfileTable[station.anemometer_height], 100000))
    ELSE IF station.climate # NoClimate
    THEN Num(climates[station.climate].average_wind_speed)
    ELSE None

dew_point(self) ==
    IF Truthy(self.temp_dew) THEN self.temp_dew
    ELSE IF Truthy(self.temp_min) /\ self.climate # NoClimate
    THEN Num(self.temp_min.v - climates[self.climate].dew_point_difference)
    ELSE False

atmospheric_pressure(self) == StationAtmosphericPressure

\* round(0.665 * 10 ** (-3) * atmospheric_pressure, 6), in 1/1000000
psychrometric_constant(self) ==
    Num(RoundDiv(665 * atmospheric_pressure(self).v, 100))

interpolate_temp_mean(self) ==
    IF Truthy(self.temp_mean) THEN self.temp_mean
    ELSE IF Truthy(self.temp_max) /\ Truthy(self.temp_min)
    THEN Num((self.temp_max.v + self.temp_min.v) \div 2)
    ELSE None

\* Eq. 11; temp is a number of the model's temperatures
saturation_vapour_pressure(temp) == Num(SvpTable[temp.v])

actual_vapour_pressure(self) ==
    IF Truthy(self.vapour_pressure) THEN self.vapour_pressure
    ELSE IF Truthy(self.temp_dry) /\ Truthy(self.temp_wet)
    THEN LET vp_wet == saturation_vapour_pressure(self.temp_wet).v
             gamma == psychrometric_constant(self).v
         IN  Num(RoundDiv(vp_wet * 100000
                          - gamma * (self.temp_dry.v - self.temp_wet.v), 100000))
    ELSE IF Truthy(self.humidity_max) /\ Truthy(self.humidity_min)
            /\ Truthy(self.temp_max) /\ Truthy(self.temp_min)
    THEN LET vp_min == saturation_vapour_pressure(self.temp_min).v
             vp_max == saturation_vapour_pressure(self.temp_max).v
         IN  Num(RoundDiv(vp_min * self.humidity_max.v
                          + vp_max * self.humidity_min.v, 200))
    ELSE IF Truthy(self.humidity_max) /\ Truthy(self.temp_min)
    THEN LET vp_min == saturation_vapour_pressure(self.temp_min).v
         IN  Num(RoundDiv(vp_min * self.humidity_max.v, 100))
    ELSE IF Truthy(self.humidity_mean) /\ Truthy(self.temp_max)
            /\ Truthy(self.temp_min)
    THEN LET vp_min == saturation_vapour_pressure(self.temp_min).v
             vp_max == saturation_vapour_pressure(self.temp_max).v
         IN  Num(RoundDiv(self.humidity_mean.v * (vp_max + vp_min), 200))
    ELSE IF Truthy(dew_point(self))
    THEN saturation_vapour_pressure(dew_point(self))
    ELSE None

\* The difference is kept symbolic: (vp_min + vp_max) / 2 can fall half way
\* between two thousandths, where the float decides the third decimal.
vapour_pressure_deficit(self) ==
    IF Truthy(self.temp_min) /\ Truthy(self.temp_max)
    THEN LET vp_min == saturation_vapour_pressure(self.temp_min)
             vp_max == saturation_vapour_pressure(self.temp_max)
             actual_vp == actual_vapour_pressure(self)
         IN  IF IsNone(actual_vp) THEN Raise("TypeError", NoneOperand)
             ELSE Arith("vapour_pressure_deficit", <<vp_min, vp_max, actual_vp>>)
    ELSE None

\* T is a number: the isinstance test of line 603 passes
relative_humidity(self, T) ==
    LET actual_vp == actual_vapour_pressure(self)
    IN  IF IsNone(actual_vp) THEN Raise("TypeError", NoneOperand)
        ELSE Num(RoundDiv(100000 * actual_vp.v, saturation_vapour_pressure(T).v))

\* The humidities are whole per cent; relative_humidity is in 1/1000 %.
\* T of relative_humidity is temp_min, then temp_max, both numbers here.
relative_humidity_mean(self) ==
    IF ~IsNone(self.humidity_mean) THEN self.humidity_mean
    ELSE IF ~IsNone(self.humidity_min) /\ ~IsNone(self.humidity_max)
    THEN Num(RoundDiv(self.humidity_max.v + self.humidity_min.v, 2))
    ELSE IF ~IsNone(self.temp_min) /\ ~IsNone(self.temp_max)
    THEN LET rh_min == relative_humidity(self, self.temp_min)
             rh_max == relative_humidity(self, self.temp_max)
         IN  IF IsRaise(rh_min) THEN rh_min
             ELSE IF IsRaise(rh_max) THEN rh_max
             ELSE Num(RoundDiv(rh_min.v + rh_max.v, 2000))
    ELSE None

-----------------------------------------------------------------------------
(* DayEntry: radiation *)

\* angstrom with the daylight-hours test of lines 520-523 left out
angstrom_unchecked(self, n) ==
    LET N == daylight_hours(self)
        ra == r_a(self)
    IN  IF IsNum(n) /\ n.v < 0
        THEN Raise("ValueError", "Observed daylight hours cannot be less than 0")
        ELSE IF IsRaise(N) THEN N
        ELSE IF IsNaN(n) THEN NaN
        ELSE IF n.v = N.v THEN Num(ClearSkyFractionTable[ra.v])
        ELSE Num(RoundDiv(ra.v * (N.v + 2 * n.v), 4 * N.v))

\* Lines 513-528: the Angstrom formula (Eq. 35) on n sunshine hours
angstrom(self, n) ==
    LET N == daylight_hours(self)
        ra == r_a(self)
    IN  IF IsNum(n) /\ n.v < 0
        THEN Raise("ValueError", "Observed daylight hours cannot be less than 0")
        ELSE IF IsRaise(N) THEN N
        ELSE IF IsNaN(n) THEN NaN
        ELSE IF n.v > N.v /\ CHECK_SUNSHINE_HOURS_RANGE
        THEN Raise("ValueError", "Daylight hours out of range")
        ELSE IF n.v = N.v THEN Num(ClearSkyFractionTable[ra.v])
        ELSE Num(RoundDiv(ra.v * (N.v + 2 * n.v), 4 * N.v))

\* Lines 500-508: Hargreaves and Samani's radiation formula (Eq. 50)
hargreaves_samani(self) ==
    LET climate == climates[station.climate]
        krs == IF climate.coastal_location THEN 19
               ELSE IF climate.interior_location THEN 16
               ELSE 16
        ra == r_a(self)
    IN  IF IsRaise(ra) THEN ra
        ELSE IF self.temp_max.v < self.temp_min.v
        THEN Raise("ValueError", MathDomain)
        ELSE IF self.temp_max.v = self.temp_min.v THEN Num(0)
        ELSE Arith("hargreaves_samani",
                   <<Num(krs), self.temp_max, self.temp_min, ra>>)

\* Lines 485-511: no sunshine hours were logged
solar_radiation_estimate(self) ==
    IF station.climate # NoClimate
       /\ climates[station.climate].island_location
       /\ station.altitude < 100
    THEN LET ra == r_a(self)
         IN  IF IsRaise(ra) THEN ra ELSE Num(RoundDiv(7 * ra.v - 400, 10))
    ELSE IF station.climate # NoClimate
            /\ Truthy(self.temp_min) /\ Truthy(self.temp_max)
    THEN hargreaves_samani(self)
    ELSE angstrom(self, daylight_hours(self))

\* solar_radiation with the logged sunshine hours consulted after the island
\* and temperature estimates instead of before them
solar_radiation_sunshine_last(self) ==
    IF Truthy(self.radiation_s)
    THEN LET rso == clear_sky_rad(self)
         IN  IF CHECK_RADIATION_RANGE /\ IsRaise(rso) THEN rso
             ELSE IF CHECK_RADIATION_RANGE /\ IsNum(self.radiation_s)
                     /\ self.radiation_s.v > rso.v
             THEN Raise("ValueError", "Solar radiation out ot range")
             ELSE self.radiation_s
    ELSE IF station.climate # NoClimate
            /\ climates[station.climate].island_location
            /\ station.altitude < 100
    THEN LET ra == r_a(self)
         IN  IF IsRaise(ra) THEN ra ELSE Num(RoundDiv(7 * ra.v - 400, 10))
    ELSE IF station.climate # NoClimate
            /\ Truthy(self.temp_min) /\ Truthy(self.temp_max)
    THEN hargreaves_samani(self)
    ELSE IF IsNone(self.sunshine_hours)
    THEN angstrom(self, daylight_hours(self))
    ELSE angstrom(self, self.sunshine_hours)

solar_radiation(self) ==
    IF Truthy(self.radiation_s)
    THEN LET rso == clear_sky_rad(self)
         IN  IF CHECK_RADIATION_RANGE /\ IsRaise(rso) THEN rso
             ELSE IF CHECK_RADIATION_RANGE /\ IsNum(self.radiation_s)
                     /\ self.radiation_s.v > rso.v
             THEN Raise("ValueError", "Solar radiation out ot range")
             ELSE self.radiation_s
    ELSE IF IsNone(self.sunshine_hours)
    THEN solar_radiation_estimate(self)
    ELSE angstrom(self, self.sunshine_hours)

\* Line 560, on the outcome rs of solar_radiation()
net_solar_rad_of(rs) ==
    IF IsRaise(rs) THEN rs
    ELSE Arith("net_solar_rad", <<Num(station.ref_crop.albedo), rs>>)

net_solar_rad(self) == net_solar_rad_of(solar_radiation(self))

\* Lines 569-582, on the outcomes of actual_vapour_pressure() (ea),
\* solar_radiation() (rs) and clear_sky_rad() (rso)
net_longwave_rad_of(self, ea, rs, rso) ==
    IF IsRaise(rs) THEN rs
    ELSE IF IsRaise(rso) THEN rso
    ELSE IF IsNone(ea) THEN Raise("TypeError", NoneOperand)
    ELSE IF ea.v < 0 THEN Raise("ValueError", MathDomain)
    ELSE IF rso.v = 0
    THEN Raise("ZeroDivisionError", "float division by zero")
    ELSE Arith("net_longwave_rad",
               <<self.temp_max, self.temp_min, ea, rs, rso>>)

net_longwave_rad(self) ==
    IF ~(Truthy(self.temp_max) /\ Truthy(self.temp_min))
    THEN Raise("AttributeError",
               "Net longwave radiation cannot be calculated without min/max temperature")
    ELSE net_longwave_rad_of(self, actual_vapour_pressure(self),
                             solar_radiation(self), clear_sky_rad(self))

\* Lines 586-594, on the outcomes of net_solar_rad() and net_longwave_rad()
net_radiation_of(ns, nl) ==
    IF IsRaise(ns) THEN ns
    ELSE IF IsRaise(nl) THEN Raise("TypeError", NotAnException)
    ELSE Arith("net_radiation", <<ns, nl>>)

net_radiation(self) ==
    net_radiation_of(net_solar_rad(self), net_longwave_rad(self))

-----------------------------------------------------------------------------
(* DayEntry: evapotranspiration *)

eto_hargreaves(self) ==
    LET temp_mean == interpolate_temp_mean(self)
        ra == r_a(self)
    IN  IF IsNone(temp_mean) THEN Raise("TypeError", NoneOperand)
        ELSE IF IsNone(self.temp_max) \/ IsNone(self.temp_min)
        THEN Raise("TypeError", NoneOperand)
        ELSE IF IsRaise(ra) THEN ra
        ELSE IF self.temp_max.v < self.temp_min.v
        THEN Raise("TypeError", ComplexRound)
        ELSE Arith("eto_hargreaves",
                   <<temp_mean, self.temp_max, self.temp_min, ra>>)

\* Lines 668-684, on the outcomes of net_radiation() and
\* vapour_pressure_deficit()
penman_monteith(self, net_rad, vpd) ==
    IF IsRaise(net_rad) THEN Raise("TypeError", NotAnException)
    ELSE IF IsRaise(vpd) THEN vpd
    ELSE IF IsNone(vpd) THEN Raise("TypeError", NoneOperand)
    ELSE Arith("eto",
               <<interpolate_temp_mean(self), net_rad,
                 wind_speed_2m(self), psychrometric_constant(self), vpd>>)

eto(self) ==
    IF ~Truthy(wind_speed_2m(self)) THEN eto_hargreaves(self)
    ELSE IF IsNone(interpolate_temp_mean(self))
    THEN Raise("AttributeError",
               "Cannot calculate eto(): temp_mean (mean temperature) is missing")
    ELSE penman_monteith(self, net_radiation(self),
                         vapour_pressure_deficit(self))

-----------------------------------------------------------------------------
(* Station.day_entry *)

\* datetime.strptime on the model's date strings: <<year, month, day>>, or
\* <<>> where strptime raises ValueError.
strptime(date_string, date_template) ==
    CASE date_string = "2020-08-16" /\ date_template = "%Y-%m-%d" -> <<2020, 8, 16>>
      [] date_string = "08/16/2020" /\ date_template = "%m/%d/%Y" -> <<2020, 8, 16>>
      [] date_string = "2021-04-15" /\ date_template = "%Y-%m-%d" -> <<2021, 4, 15>>
      [] date_string = "2020-01-01" /\ date_template = "%Y-%m-%d" -> <<2020, 1, 1>>
      [] date_string = "2020-12-31" /\ date_template = "%Y-%m-%d" -> <<2020, 12, 31>>
      [] OTHER -> <<>>

IsLeapYear(y) == (y % 4 = 0 /\ y % 100 # 0) \/ y % 400 = 0

DaysInMonth(y, m) ==
    IF m = 2 THEN (IF IsLeapYear(y) THEN 29 ELSE 28)
    ELSE IF m \in {4, 6, 9, 11} THEN 30 ELSE 31

RECURSIVE DaysBeforeMonth(_, _)
DaysBeforeMonth(y, m) ==
    IF m = 1 THEN 0 ELSE DaysBeforeMonth(y, m - 1) + DaysInMonth(y, m - 1)

\* day_entry_number with the upper limit of line 135 off by one
day_entry_number_wide(day_number, date_template) ==
    IF day_number.type = "str"
    THEN LET dt1 == strptime(day_number.s, date_template)
         IN  IF dt1 = <<>>
             THEN Raise("ValueError",
                        "Date must be in YYYY-MM-DD format (ex: 2020-09-28)")
             ELSE Num(DaysBeforeMonth(dt1[1], dt1[2]) + dt1[3])
    ELSE IF day_number.type # "int"
    THEN Raise("TypeError", "'day_number' must be an integer")
    ELSE IF day_number.v < 1 \/ day_number.v > 367
    THEN Raise("ValueError", "'day_number' must be between in the range 1-366")
    ELSE Num(day_number.v)

\* day_entry_number with the days since January 1 not counted from 1
day_entry_number_from_zero(day_number, date_template) ==
    IF day_number.type = "str"
    THEN LET dt1 == strptime(day_number.s, date_template)
         IN  IF dt1 = <<>>
             THEN Raise("ValueError",
                        "Date must be in YYYY-MM-DD format (ex: 2020-09-28)")
             ELSE IF DaysBeforeMonth(dt1[1], dt1[2]) + dt1[3] - 1 < 1
             THEN Raise("ValueError",
                        "'day_number' must be between in the range 1-366")
             ELSE Num(DaysBeforeMonth(dt1[1], dt1[2]) + dt1[3] - 1)
    ELSE IF day_number.type # "int"
    THEN Raise("TypeError", "'day_number' must be an integer")
    ELSE IF day_number.v < 1 \/ day_number.v > 366
    THEN Raise("ValueError", "'day_number' must be between in the range 1-366")
    ELSE Num(day_number.v)

\* day_entry_number with the lower limit of line 135 left out
day_entry_number_no_floor(day_number, date_template) ==
    IF day_number.type = "str"
    THEN LET dt1 == strptime(day_number.s, date_template)
         IN  IF dt1 = <<>>
             THEN Raise("ValueError",
                        "Date must be in YYYY-MM-DD format (ex: 2020-09-28)")
             ELSE Num(DaysBeforeMonth(dt1[1], dt1[2]) + dt1[3])
    ELSE IF day_number.type # "int"
    THEN Raise("TypeError", "'day_number' must be an integer")
    ELSE IF day_number.v > 366
    THEN Raise("ValueError", "'day_number' must be between in the range 1-366")
    ELSE Num(day_number.v)

\* Lines 122-136: the day number of the call, or the exception raised.
\* day_number is an int or a float [type, v], or a str [type, s].
day_entry_number(day_number, date_template) ==
    IF day_number.type = "str"
    THEN LET dt1 == strptime(day_number.s, date_template)
         IN  IF dt1 = <<>>
             THEN Raise("ValueError",
                        "Date must be in YYYY-MM-DD format (ex: 2020-09-28)")
             ELSE Num(DaysBeforeMonth(dt1[1], dt1[2]) + dt1[3])
    ELSE IF day_number.type # "int"
    THEN Raise("TypeError", "'day_number' must be an integer")
    ELSE IF day_number.v < 1 \/ day_number.v > 366
    THEN Raise("ValueError", "'day_number' must be between in the range 1-366")
    ELSE Num(day_number.v)

\* radiation_accepted with a strict comparison against the clear-sky radiation
radiation_accepted_strict(day, radiation_s) ==
    \/ /\ CHECK_RADIATION_RANGE
       /\ IsNum(radiation_s)
       /\ radiation_s.v < clear_sky_rad(day).v
    \/ ~CHECK_RADIATION_RANGE

\* Lines 150-154: the test that lets radiation_s into the record
radiation_accepted(day, radiation_s) ==
    \/ /\ CHECK_RADIATION_RANGE
       /\ IsNum(radiation_s)
       /\ radiation_s.v <= clear_sky_rad(day).v
    \/ ~CHECK_RADIATION_RANGE

\* Lines 161-165: the test that lets sunshine_hours into the record
sunshine_accepted(day, sunshine_hours) ==
    \/ /\ CHECK_SUNSHINE_HOURS_RANGE
       /\ IsNum(sunshine_hours)
       /\ sunshine_hours.v <= daylight_hours(day).v
    \/ ~CHECK_SUNSHINE_HOURS_RANGE

\* Lines 149-169: the radiation and sunshine arguments a of day_entry, on the
\* record day0. An exception of clear_sky_rad or daylight_hours leaves the
\* call.
day_entry_ranges(day0, a) ==
    LET rad_err == Truthy(a.radiation_s) /\ CHECK_RADIATION_RANGE
                    /\ IsRaise(clear_sky_rad(day0))
        rad_ok == ~Truthy(a.radiation_s) \/ radiation_accepted(day0, a.radiation_s)
                    \/ IsNaN(a.radiation_s)
        day1 == IF Truthy(a.radiation_s) /\ radiation_accepted(day0, a.radiation_s)
                THEN [day0 EXCEPT !.radiation_s = a.radiation_s]
                ELSE day0
        sun_err == Truthy(a.sunshine_hours) /\ CHECK_SUNSHINE_HOURS_RANGE
                    /\ IsRaise(daylight_hours(day1))
        sun_ok == ~Truthy(a.sunshine_hours)
                    \/ sunshine_accepted(day1, a.sunshine_hours)
        day2 == IF Truthy(a.sunshine_hours) /\ sun_ok
                THEN [day1 EXCEPT !.sunshine_hours = a.sunshine_hours]
                ELSE day1
    IN  IF rad_err THEN [day |-> day0, res |-> clear_sky_rad(day0)]
        ELSE IF ~rad_ok
        THEN [day |-> day0, res |-> Raise("ValueError", "Radiation out of range")]
        ELSE IF sun_err THEN [day |-> day1, res |-> daylight_hours(day1)]
        ELSE IF ~sun_ok
        THEN [day |-> day1,
              res |-> Raise("ValueError", "Sunshine hours out of range")]
        ELSE [day |-> day2, res |-> None]

\* day_entry_record with the record already registered under n, if there is
\* one, written to instead of a new DayEntry
day_entry_record_reused(n, a) ==
    LET day == IF n \in DOMAIN days THEN days[n] ELSE DayEntry(n, station)
        day0 == [day EXCEPT
                    !.temp_min = a.temp_min, !.temp_max = a.temp_max,
                    !.temp_mean = a.temp_mean,
                    !.humidity_min = a.humidity_min,
                    !.humidity_max = a.humidity_max,
                    !.humidity_mean = a.humidity_mean,
                    !.wind_speed = a.wind_speed]
    IN  day_entry_ranges(day0, a)

\* day_entry_record with a keyword argument assigned only when it is truthy
day_entry_record_truthy(n, a) ==
    LET new == DayEntry(n, station)
        day0 == [new EXCEPT
                    !.temp_min = IF Truthy(a.temp_min) THEN a.temp_min ELSE @,
                    !.temp_max = IF Truthy(a.temp_max) THEN a.temp_max ELSE @,
                    !.temp_mean = IF Truthy(a.temp_mean) THEN a.temp_mean ELSE @,
                    !.humidity_min =
                        IF Truthy(a.humidity_min) THEN a.humidity_min ELSE @,
                    !.humidity_max =
                        IF Truthy(a.humidity_max) THEN a.humidity_max ELSE @,
                    !.humidity_mean =
                        IF Truthy(a.humidity_mean) THEN a.humidity_mean ELSE @,
                    !.wind_speed = IF Truthy(a.wind_speed) THEN a.wind_speed ELSE @]
    IN  day_entry_ranges(day0, a)

\* Lines 138-169 for a valid day number n and the keyword arguments a:
\* the record as it stands when the call ends, and None or the exception.
day_entry_record(n, a) ==
    LET day0 == [DayEntry(n, station) EXCEPT
                    !.temp_min = a.temp_min, !.temp_max = a.temp_max,
                    !.temp_mean = a.temp_mean,
                    !.humidity_min = a.humidity_min,
                    !.humidity_max = a.humidity_max,
                    !.humidity_mean = a.humidity_mean,
                    !.wind_speed = a.wind_speed]
    IN  day_entry_ranges(day0, a)

\* station.day_entry(day_number, date_template, **a); last keeps whether the
\* day number was in the registry when the call was made
day_entry(day_number, date_template, a) ==
    LET n == day_entry_number(day_number, date_template)
    IN  /\ last' = [op |-> "day_entry", day_number |-> day_number,
                    date_template |-> date_template, args |-> a,
                    res |-> IF IsRaise(n) THEN n
                            ELSE day_entry_record(n.v, a).res,
                    n |-> IF IsRaise(n) THEN 0 ELSE n.v,
                    registered |-> ~IsRaise(n) /\ n.v \in DOMAIN days]
        /\ days' = IF IsRaise(n) THEN days
                   ELSE (n.v :> day_entry_record(n.v, a).day) @@ days
        /\ ops' = ops + 1
        /\ UNCHANGED <<station, climates, CHECK_RADIATION_RANGE,
                       CHECK_SUNSHINE_HOURS_RANGE>>

-----------------------------------------------------------------------------
(* The other things a caller does *)

\* station.days[n].<f> = x
set_attribute(n, f, x) ==
    /\ n \in DOMAIN days
    /\ days' = [days EXCEPT ![n] = SetField(@, f, x)]
    /\ last' = [op |-> "set_attribute", n |-> n, field |-> f]
    /\ ops' = ops + 1
    /\ UNCHANGED <<station, climates, CHECK_RADIATION_RANGE,
                   CHECK_SUNSHINE_HOURS_RANGE>>

\* station.climate = None
set_climate_none ==
    /\ station' = [station EXCEPT !.climate = NoClimate]
    /\ last' = [op |-> "set_climate_none"]
    /\ ops' = ops + 1
    /\ UNCHANGED <<climates, days, CHECK_RADIATION_RANGE,
                   CHECK_SUNSHINE_HOURS_RANGE>>

\* station.climate = Climate()
set_climate_new ==
    /\ climates' = Append(climates, Climate)
    /\ station' = [station EXCEPT !.climate = Len(climates) + 1]
    /\ last' = [op |-> "set_climate_new"]
    /\ ops' = ops + 1
    /\ UNCHANGED <<days, CHECK_RADIATION_RANGE, CHECK_SUNSHINE_HOURS_RANGE>>

\* station.climate.<m>(); the call returns self
climate_mutator(m) ==
    /\ station.climate # NoClimate
    /\ climates' = [climates EXCEPT ![station.climate] = Mutate(m, @)]
    /\ last' = [op |-> m, res |-> station.climate]
    /\ ops' = ops + 1
    /\ UNCHANGED <<station, days, CHECK_RADIATION_RANGE,
                   CHECK_SUNSHINE_HOURS_RANGE>>

\* penmon.eto.CHECK_RADIATION_RANGE = b
set_check_radiation_range(b) ==
    /\ CHECK_RADIATION_RANGE' = b
    /\ last' = [op |-> "set_check_radiation_range"]
    /\ ops' = ops + 1
    /\ UNCHANGED <<station, climates, days, CHECK_SUNSHINE_HOURS_RANGE>>

\* penmon.eto.CHECK_SUNSHINE_HOURS_RANGE = b
set_check_sunshine_hours_range(b) ==
    /\ CHECK_SUNSHINE_HOURS_RANGE' = b
    /\ last' = [op |-> "set_check_sunshine_hours_range"]
    /\ ops' = ops + 1
    /\ UNCHANGED <<station, climates, days, CHECK_RADIATION_RANGE>>

-----------------------------------------------------------------------------
(* Calls of the accessors of a DayEntry *)

Accessors ==
    {"relative_sun_distance", "solar_declination", "sunset_hour_angle", "r_a",
     "daylight_hours", "clear_sky_rad", "atmospheric_pressure",
     "psychrometric_constant",
     "wind_speed_2m", "dew_point", "interpolate_temp_mean",
     "actual_vapour_pressure", "vapour_pressure_deficit", "relative_humidity",
     "relative_humidity_mean",
     "solar_radiation", "net_longwave_rad", "net_radiation", "eto",
     "eto_hargreaves"}

\* The temperature relative_humidity is called with
RelativeHumidityAt == Num(2000)

Apply(f, self) ==
    CASE f = "relative_sun_distance" -> relative_sun_distance(self)
      [] f = "solar_declination" -> solar_declination(self)
      [] f = "sunset_hour_angle" -> sunset_hour_angle(self)
      [] f = "r_a" -> r_a(self)
      [] f = "daylight_hours" -> daylight_hours(self)
      [] f = "clear_sky_rad" -> clear_sky_rad(self)
      [] f = "atmospheric_pressure" -> atmospheric_pressure(self)
      [] f = "psychrometric_constant" -> psychrometric_constant(self)
      [] f = "wind_speed_2m" -> wind_speed_2m(self)
      [] f = "dew_point" -> dew_point(self)
      [] f = "interpolate_temp_mean" -> interpolate_temp_mean(self)
      [] f = "actual_vapour_pressure" -> actual_vapour_pressure(self)
      [] f = "vapour_pressure_deficit" -> vapour_pressure_deficit(self)
      [] f = "relative_humidity" -> relative_humidity(self, RelativeHumidityAt)
      [] f = "relative_humidity_mean" -> relative_humidity_mean(self)
      [] f = "solar_radiation" -> solar_radiation(self)
      [] f = "net_longwave_rad" -> net_longwave_rad(self)
      [] f = "net_radiation" -> net_radiation(self)
      [] f = "eto" -> eto(self)
      [] f = "eto_hargreaves" -> eto_hargreaves(self)

\* call with the mean temperature it resolves stored in the record
call_caching(n, f) ==
    /\ n \in DOMAIN days
    /\ last' = [op |-> f, n |-> n, res |-> Apply(f, days[n])]
    /\ days' = [days EXCEPT ![n].temp_mean = interpolate_temp_mean(days[n])]
    /\ UNCHANGED <<station, climates, CHECK_RADIATION_RANGE,
                   CHECK_SUNSHINE_HOURS_RANGE, ops>>

\* station.days[n].<f>()
call(n, f) ==
    /\ n \in DOMAIN days
    /\ last' = [op |-> f, n |-> n, res |-> Apply(f, days[n])]
    /\ UNCHANGED <<station, climates, days, CHECK_RADIATION_RANGE,
                   CHECK_SUNSHINE_HOURS_RANGE, ops>>

-----------------------------------------------------------------------------
(* The calls made on a newly constructed station *)

MaxOps == 3

NoArgs ==
    [temp_min |-> None, temp_max |-> None, temp_mean |-> None,
     wind_speed |-> None, humidity_mean |-> None, humidity_min |-> None,
     humidity_max |-> None, radiation_s |-> None, sunshine_hours |-> None]

\* Keyword arguments of day_entry. At latitude 41.42 day 229 has 13.6
\* daylight hours and a clear-sky radiation of 27.1 (altitude 109) or 27.0
\* (altitude 10); day 105 has 13.1 hours and 25.8 or 25.7.
DayEntryArgs ==
    {NoArgs,
     [NoArgs EXCEPT !.temp_min = Num(1980), !.temp_max = Num(2990)],
     [NoArgs EXCEPT !.radiation_s = Num(271)],
     [NoArgs EXCEPT !.radiation_s = Num(272), !.temp_min = Num(1980)],
     [NoArgs EXCEPT !.radiation_s = Num(272), !.temp_min = Num(1980),
                    !.temp_max = Num(2990)],
     [NoArgs EXCEPT !.radiation_s = NaN],
     [NoArgs EXCEPT !.radiation_s = Num(0), !.sunshine_hours = Num(0),
                    !.wind_speed = Num(0)],
     [NoArgs EXCEPT !.sunshine_hours = Num(71)],
     [NoArgs EXCEPT !.sunshine_hours = Num(150), !.temp_mean = Num(2500)],
     [NoArgs EXCEPT !.radiation_s = Num(257), !.sunshine_hours = Num(150)],
     [NoArgs EXCEPT !.sunshine_hours = Num(-10)],
     [NoArgs EXCEPT !.temp_min = Num(0), !.temp_max = Num(2990),
                    !.temp_mean = Num(1500), !.wind_speed = Num(0),
                    !.humidity_min = Num(45), !.humidity_max = Num(90),
                    !.humidity_mean = Num(60)]}

IntArg(v) == [type |-> "int", v |-> v]
StrArg(s) == [type |-> "str", s |-> s]
FloatArg(v) == [type |-> "float", v |-> v]

DayEntryCalls ==
    ({IntArg(105), IntArg(229)} \X {"%Y-%m-%d"} \X DayEntryArgs)
    \cup ({StrArg("2020-08-16"), StrArg("08/16/2020"), StrArg("2020-01-01"),
           StrArg("2020-12-31"), StrArg("2021-02-30"), IntArg(0), IntArg(367),
           FloatArg(365)}
          \X {"%Y-%m-%d", "%m/%d/%Y"} \X {NoArgs})

\* Direct assignments to a record's attributes
Assignments ==
    {<<"temp_min", Num(1980)>>, <<"temp_dew", Num(1500)>>,
     <<"wind_speed", Num(0)>>, <<"radiation_s", Num(350)>>,
     <<"sunshine_hours", Num(150)>>, <<"sunshine_hours", Num(-10)>>}

StationInputs == {Station(4142, 109, 2), Station(4142, 10, 2)}

EmptyDays == [n \in {} |-> None]

Init ==
    /\ station \in StationInputs
    /\ climates = <<Climate>>
    /\ days = EmptyDays
    /\ CHECK_RADIATION_RANGE = TRUE
    /\ CHECK_SUNSHINE_HOURS_RANGE = TRUE
    /\ last = [op |-> "Station"]
    /\ ops = 0

Budget == ops < MaxOps

Next ==
    \/ \E c \in DayEntryCalls : Budget /\ day_entry(c[1], c[2], c[3])
    \/ \E n \in DOMAIN days, fx \in Assignments :
          Budget /\ set_attribute(n, fx[1], fx[2])
    \/ Budget /\ set_climate_none
    \/ Budget /\ set_climate_new
    \/ \E m \in Mutators : Budget /\ climate_mutator(m)
    \/ \E b \in BOOLEAN : Budget /\ set_check_radiation_range(b)
    \/ \E b \in BOOLEAN : Budget /\ set_check_sunshine_hours_range(b)

Spec == Init /\ [][Next]_vars

-----------------------------------------------------------------------------
(* The accessors applied to the records a station can hold *)

Climates == {Climate, coastal(Climate), island(Climate), humid(Climate)}

\* A station with one record for day 229, whose fields are given by a
Registered(st, c, a, rr, sr) ==
    [station |-> st, climates |-> <<c>>, day |-> a, rr |-> rr, sr |-> sr]

NoFields == DayEntry(229, Station(4142, 109, 2))

\* Records with radiation data, under every terrain and both switches
SolarRecords ==
    {Registered([Station(4142, alt, 2) EXCEPT !.climate = sc], c,
                [NoFields EXCEPT !.climate = sc, !.radiation_s = rad,
                                 !.sunshine_hours = sun, !.temp_min = tmin,
                                 !.temp_max = tmax], rr, sr) :
        alt \in {10, 109}, sc \in {NoClimate, 1},
        c \in {Climate, coastal(Climate), island(Climate)},
        rad \in {None, Num(0), Num(271), Num(350), NaN},
        sun \in {None, Num(0), Num(71), Num(150), Num(-10)},
        tmin \in {None, Num(1980)}, tmax \in {None, Num(2990)},
        rr \in BOOLEAN, sr \in BOOLEAN}

\* Records with wind and temperature data
WindRecords ==
    {Registered([Station(4142, 109, h) EXCEPT !.climate = sc], Climate,
                [NoFields EXCEPT !.climate = sc, !.wind_speed = wind,
                                 !.temp_min = tmin, !.temp_max = tmax,
                                 !.temp_mean = tmean, !.humidity_mean = hmean],
                TRUE, TRUE) :
        h \in {2, 10}, sc \in {NoClimate, 1},
        wind \in {None, Num(0), Num(20), Num(32)},
        tmin \in {None, Num(0), Num(1980)}, tmax \in {None, Num(0), Num(2990)},
        tmean \in {None, Num(0), Num(2500)}, hmean \in {None, Num(60)}}

\* Records with humidity data; dc is the climate the record has kept
VapourRecords ==
    {Registered([Station(4142, 109, 2) EXCEPT !.climate = scdc[1]], c,
                [NoFields EXCEPT !.climate = scdc[2],
                                 !.vapour_pressure = psy[1],
                                 !.temp_dry = psy[2], !.temp_wet = psy[3],
                                 !.humidity_min = hmin, !.humidity_max = hmax,
                                 !.humidity_mean = hmean, !.temp_min = tmin,
                                 !.temp_max = tmax, !.temp_dew = tdew],
                TRUE, TRUE) :
        scdc \in {<<NoClimate, NoClimate>>, <<1, 1>>, <<NoClimate, 1>>},
        c \in {Climate, humid(Climate)},
        psy \in {<<None, None, None>>, <<Num(1400), None, None>>,
                 <<None, Num(2560), Num(1950)>>, <<None, Num(2560), None>>},
        hmin \in {None, Num(0), Num(45)}, hmax \in {None, Num(0), Num(90)},
        hmean \in {None, Num(60)},
        tmin \in {None, Num(0), Num(200), Num(1980)}, tmax \in {None, Num(2990)},
        tdew \in {None, Num(0), Num(1500)}}

\* Records of a day with a maximum humidity of 100 %, some with a vapour
\* pressure supplied
SaturatedRecords ==
    {Registered(Station(4142, 109, 2), Climate,
                [NoFields EXCEPT !.humidity_min = hmin,
                                 !.humidity_max = Num(100),
                                 !.temp_min = Num(1980), !.temp_max = Num(2990),
                                 !.vapour_pressure = vp],
                TRUE, TRUE) :
        hmin \in {None, Num(45), Num(100)},
        vp \in {None, Num(2500), Num(5000)}}

\* Records with a mean humidity, the two extremes or the two temperatures,
\* zero among the values of each
MeanHumidityRecords ==
    {Registered([Station(4142, 109, 2) EXCEPT !.climate = sc], Climate,
                [NoFields EXCEPT !.climate = sc, !.humidity_mean = hmean,
                                 !.humidity_min = hmin, !.humidity_max = hmax,
                                 !.temp_min = tmin, !.temp_max = tmax],
                TRUE, TRUE) :
        sc \in {NoClimate, 1},
        hmean \in {None, Num(0), Num(60)},
        hmin \in {None, Num(0), Num(45), Num(70)},
        hmax \in {None, Num(0), Num(80)},
        tmin \in {None, Num(0), Num(1500)}, tmax \in {None, Num(3000)}}

\* Latitudes from pole to pole, in 1/100 degree
Latitudes == {-9000, -7000, 0, 4142, 6650, 6660, 7000, 9000}

\* Day numbers: the ends of the year, the solstices and two days between
DayNumbers == {1, 105, 172, 229, 355, 366}

\* Records of every day number at every latitude, without raw fields or with
\* the two temperatures
GeometryRecords ==
    {Registered(Station(lat, alt, 2), Climate,
                [DayEntry(n, Station(lat, alt, 2)) EXCEPT
                    !.temp_min = t[1], !.temp_max = t[2]], TRUE, TRUE) :
        lat \in Latitudes, alt \in {10, 109}, n \in DayNumbers,
        t \in {<<None, None>>, <<Num(1980), Num(2990)>>}}

InitQuery ==
    \E q \in SolarRecords \cup WindRecords \cup VapourRecords
              \cup SaturatedRecords \cup MeanHumidityRecords
              \cup GeometryRecords :
        /\ station = q.station
        /\ climates = q.climates
        /\ days = (q.day.day_number :> q.day)
        /\ CHECK_RADIATION_RANGE = q.rr
        /\ CHECK_SUNSHINE_HOURS_RANGE = q.sr
        /\ last = [op |-> "Station"]
        /\ ops = 0

NextQuery == \E n \in DOMAIN days, f \in Accessors : call(n, f)

SpecQuery == InitQuery /\ [][NextQuery]_vars

-----------------------------------------------------------------------------
(* The construction of a station *)

\* A float argument that is not a number
NaNArg == [type |-> "float", nan |-> TRUE]

IsNaNArg(x) == "nan" \in DOMAIN x

\* The anemometer height is left to its default
DefaultArg == [type |-> "default"]

\* Latitudes in 1/100 degree
LatitudeArgs ==
    {FloatArg(-9001), FloatArg(-9000), FloatArg(-4142), FloatArg(0),
     FloatArg(2290), FloatArg(4142), FloatArg(9000), FloatArg(9001),
     IntArg(10), StrArg("41.42"), NaNArg}

AltitudeArgs == {IntArg(-1), IntArg(0), IntArg(10), IntArg(109), FloatArg(109)}

AnemometerHeightArgs == {DefaultArg, IntArg(10)}

\* Lines 58-69: None, or the exception the constructor raises. A comparison
\* with a float that is not a number is false.
Station_init(latitude, altitude) ==
    IF latitude.type # "float"
    THEN Raise("TypeError", "'latitude' must be a float")
    ELSE IF ~IsNaNArg(latitude) /\ (latitude.v < -9000 \/ latitude.v > 9000)
    THEN Raise("ValueError", "'latitude' must be between -90.0 and 90.0")
    ELSE IF altitude.type # "int"
    THEN Raise("TypeError", "'altitude' must be an integer")
    ELSE IF altitude.v < 0
    THEN Raise("ValueError", "'altitude' must be above 0")
    ELSE None

\* station = Station(latitude, altitude[, anemometer_height])
new_station(latitude, altitude, anemometer_height) ==
    /\ station = None
    /\ last' = [op |-> "Station", latitude |-> latitude, altitude |-> altitude,
                anemometer_height |-> anemometer_height,
                res |-> Station_init(latitude, altitude)]
    /\ IF IsRaise(Station_init(latitude, altitude))
       THEN UNCHANGED <<station, climates, days>>
       ELSE /\ station' =
                 Station(IF IsNaNArg(latitude) THEN NaN ELSE latitude.v,
                         altitude.v,
                         IF anemometer_height = DefaultArg THEN 2
                         ELSE anemometer_height.v)
            /\ climates' = Append(climates, Climate)
            /\ days' = EmptyDays
    /\ UNCHANGED <<CHECK_RADIATION_RANGE, CHECK_SUNSHINE_HOURS_RANGE, ops>>

InitStation ==
    /\ station = None
    /\ climates = <<>>
    /\ days = EmptyDays
    /\ CHECK_RADIATION_RANGE = TRUE
    /\ CHECK_SUNSHINE_HOURS_RANGE = TRUE
    /\ last = [op |-> "import"]
    /\ ops = 0

NextStation ==
    \E latitude \in LatitudeArgs, altitude \in AltitudeArgs,
       anemometer_height \in AnemometerHeightArgs :
        new_station(latitude, altitude, anemometer_height)

SpecStation == InitStation /\ [][NextStation]_vars

-----------------------------------------------------------------------------
(* Registrations and accessor calls on a newly constructed station *)

\* A station beyond the polar circle besides the stations of StationInputs
InitCalls ==
    /\ station \in StationInputs \cup {Station(7000, 109, 2)}
    /\ climates = <<Climate>>
    /\ days = EmptyDays
    /\ CHECK_RADIATION_RANGE = TRUE
    /\ CHECK_SUNSHINE_HOURS_RANGE = TRUE
    /\ last = [op |-> "Station"]
    /\ ops = 0

NextCalls ==
    \/ \E c \in DayEntryCalls : Budget /\ day_entry(c[1], c[2], c[3])
    \/ \E n \in DOMAIN days, f \in Accessors : call(n, f)

SpecCalls == InitCalls /\ [][NextCalls]_vars

-----------------------------------------------------------------------------
(* The claims *)

\* The record the last call was made on
LastDay == days[last.n]

OutOfRangeMessages == {"Radiation out of range", "Sunshine hours out of range"}

\* C1: a day_entry call that fails with OutOfRange (radiation_s above the
\* clear-sky radiation, or sunshine_hours above the daylight hours, with the
\* switch enabled) leaves the station's registry exactly as it was before the
\* call.
C1_OutOfRangeLeavesRegistry ==
    [][(/\ ops' = ops + 1
        /\ last'.op = "day_entry"
        /\ IsRaise(last'.res)
        /\ last'.res.m \in OutOfRangeMessages) => days' = days]_vars

\* Wind is unresolvable: no wind speed supplied and the station has no climate
WindUnresolvable(self) ==
    IsNone(self.wind_speed) /\ station.climate = NoClimate

\* The mean temperature is unresolvable: no temp_mean, and not both bounds
TempMeanUnresolvable(self) ==
    IsNone(self.temp_mean) /\ (IsNone(self.temp_min) \/ IsNone(self.temp_max))

IsMissingData(x) == IsRaise(x) /\ x.t = "AttributeError"

\* C2: eto() is the outcome of eto_hargreaves() exactly when wind is
\* unresolvable; otherwise it evaluates the full formula (never the Hargreaves
\* estimate), and fails with MissingData when wind is resolvable and the mean
\* temperature is not.
C2_HargreavesExactlyWithoutWind ==
    last.op = "eto" =>
        /\ WindUnresolvable(LastDay) => last.res = eto_hargreaves(LastDay)
        /\ ~WindUnresolvable(LastDay) =>
              /\ ~(last.res.k = "term" /\ last.res.f = "eto_hargreaves")
              /\ TempMeanUnresolvable(LastDay) => IsMissingData(last.res)

\* C3: on a record with no wind speed, no radiation data and no temperature
\* data, at a station whose climate is absent, eto() fails with MissingData
\* (AttributeError).
C3_NoDataNoClimateIsMissingData ==
    (/\ last.op = "eto"
     /\ station.climate = NoClimate
     /\ IsNone(LastDay.wind_speed)
     /\ IsNone(LastDay.radiation_s) /\ IsNone(LastDay.sunshine_hours)
     /\ IsNone(LastDay.temp_min) /\ IsNone(LastDay.temp_max)
     /\ IsNone(LastDay.temp_mean))
    => IsMissingData(last.res)

\* The humidity/temperature branch of actual_vapour_pressure (Eq. 17) is the
\* one to take: no vapour pressure, no psychrometric pair, and the two
\* humidities and the two temperatures all supplied
HumidityBranch(self) ==
    /\ IsNone(self.vapour_pressure)
    /\ IsNone(self.temp_dry) \/ IsNone(self.temp_wet)
    /\ IsNum(self.humidity_max) /\ IsNum(self.humidity_min)
    /\ IsNum(self.temp_max) /\ IsNum(self.temp_min)

\* C4: a field supplied as 0 counts as supplied: interpolate_temp_mean()
\* returns a supplied temp_mean, 0 included, and the average of two supplied
\* bounds, 0 included; wind_speed_2m() returns 0 for a wind speed of 0;
\* actual_vapour_pressure() takes the humidity/temperature branch when its four
\* fields are supplied, 0 included; net_longwave_rad() reports no missing
\* temperature when both bounds are supplied, 0 included.
C4_ZeroIsSupplied ==
    /\ (last.op = "interpolate_temp_mean" /\ IsNum(LastDay.temp_mean))
          => last.res = LastDay.temp_mean
    /\ (/\ last.op = "interpolate_temp_mean" /\ IsNone(LastDay.temp_mean)
        /\ IsNum(LastDay.temp_min) /\ IsNum(LastDay.temp_max))
          => last.res = Num((LastDay.temp_max.v + LastDay.temp_min.v) \div 2)
    /\ (last.op = "wind_speed_2m" /\ LastDay.wind_speed = Num(0))
          => last.res = Num(0)
    /\ (last.op = "actual_vapour_pressure" /\ HumidityBranch(LastDay))
          => last.res =
                Num(RoundDiv(SvpTable[LastDay.temp_min.v] * LastDay.humidity_max.v
                             + SvpTable[LastDay.temp_max.v] * LastDay.humidity_min.v,
                             200))
    /\ (/\ last.op = "net_longwave_rad"
        /\ IsNum(LastDay.temp_min) /\ IsNum(LastDay.temp_max))
          => ~IsMissingData(last.res)

\* A supplied radiation_s: the value itself, or the failure of the range test
SuppliedRadiation(self) ==
    IF CHECK_RADIATION_RANGE /\ IsNum(self.radiation_s)
       /\ self.radiation_s.v > clear_sky_rad(self).v
    THEN Raise("ValueError", "Solar radiation out ot range")
    ELSE self.radiation_s

\* The island simplification applies: climate present, island, below 100 m
IslandApplies ==
    /\ station.climate # NoClimate
    /\ climates[station.climate].island_location
    /\ station.altitude < 100

\* 0.7 * Ra - 4 (Eq. 51)
IslandSimplification(self) == Num(RoundDiv(7 * r_a(self).v - 400, 10))

\* C5: solar_radiation() resolves in the order supplied radiation_s, island
\* simplification, Hargreaves-Samani (climate present, temp_min and temp_max
\* supplied), Angstrom on supplied sunshine_hours, Angstrom with n = daylight
\* hours; sunshine_hours is consulted only when neither the island
\* simplification nor Hargreaves-Samani applies.
C5_SunshineAfterEstimates ==
    last.op = "solar_radiation" =>
        last.res =
            IF ~IsNone(LastDay.radiation_s) THEN SuppliedRadiation(LastDay)
            ELSE IF IslandApplies THEN IslandSimplification(LastDay)
            ELSE IF /\ station.climate # NoClimate
                    /\ ~IsNone(LastDay.temp_min) /\ ~IsNone(LastDay.temp_max)
            THEN hargreaves_samani(LastDay)
            ELSE IF ~IsNone(LastDay.sunshine_hours)
            THEN angstrom(LastDay, LastDay.sunshine_hours)
            ELSE angstrom(LastDay, daylight_hours(LastDay))

\* C5, amended: solar_radiation() resolves in the order supplied non-zero
\* radiation_s (the value, or a failure when it is above the clear-sky
\* radiation with the range check on), Angstrom on supplied sunshine_hours
\* (0 included), island simplification, Hargreaves-Samani (climate present,
\* temp_min and temp_max supplied and non-zero), Angstrom with n = daylight
\* hours; the island simplification and Hargreaves-Samani are consulted only
\* when no sunshine_hours is supplied.
C5_SunshineBeforeEstimates ==
    last.op = "solar_radiation" =>
        last.res =
            IF Truthy(LastDay.radiation_s) THEN SuppliedRadiation(LastDay)
            ELSE IF ~IsNone(LastDay.sunshine_hours)
            THEN angstrom(LastDay, LastDay.sunshine_hours)
            ELSE IF IslandApplies THEN IslandSimplification(LastDay)
            ELSE IF /\ station.climate # NoClimate
                    /\ Truthy(LastDay.temp_min) /\ Truthy(LastDay.temp_max)
            THEN hargreaves_samani(LastDay)
            ELSE angstrom(LastDay, daylight_hours(LastDay))

\* solar_radiation() was called on a record with sunshine hours and both
\* temperatures under a climate, and answered with the Angstrom value of the
\* sunshine hours, which is not the Hargreaves-Samani value.
C5_SunshineWins ==
    /\ last.op = "solar_radiation"
    /\ IsNone(LastDay.radiation_s)
    /\ IsNum(LastDay.sunshine_hours)
    /\ station.climate # NoClimate
    /\ Truthy(LastDay.temp_min) /\ Truthy(LastDay.temp_max)
    /\ last.res = angstrom(LastDay, LastDay.sunshine_hours)
    /\ IsNum(last.res)
    /\ last.res # hargreaves_samani(LastDay)

\* C6: whenever solar_radiation() takes the Hargreaves-Samani branch, the
\* coefficient krs it uses equals the k_rs of the station's climate.
C6_KrsIsClimateKrs ==
    (/\ last.op = "solar_radiation"
     /\ last.res.k = "term"
     /\ last.res.f = "hargreaves_samani")
    => last.res.a[1] = Num(climates[station.climate].k_rs)

\* C7: every climate-dependent fallback of every record follows the station's
\* current climate: dew_point() is what it would be had the record the
\* station's climate, and with the climate absent wind_speed_2m() without a
\* wind speed is absent, dew_point() without a temp_dew is absent, and
\* solar_radiation() without radiation data is Angstrom with n = daylight hours.
C7_FallbacksFollowStationClimate ==
    \A n \in DOMAIN days :
        /\ dew_point(days[n]) =
              dew_point([days[n] EXCEPT !.climate = station.climate])
        /\ station.climate = NoClimate =>
              /\ IsNone(days[n].wind_speed) => IsNone(wind_speed_2m(days[n]))
              /\ IsNone(days[n].temp_dew) => dew_point(days[n]) \in {None, False}
              /\ (IsNone(days[n].radiation_s) /\ IsNone(days[n].sunshine_hours))
                    => solar_radiation(days[n]) =
                          angstrom(days[n], daylight_hours(days[n]))

\* No vapour pressure, psychrometric, humidity or dew-point data, no climate
NoVapourData(self) ==
    /\ IsNone(self.vapour_pressure)
    /\ IsNone(self.temp_dry) /\ IsNone(self.temp_wet)
    /\ IsNone(self.humidity_min) /\ IsNone(self.humidity_max)
    /\ IsNone(self.humidity_mean)
    /\ IsNone(self.temp_dew)
    /\ self.climate = NoClimate /\ station.climate = NoClimate

\* C8: when actual_vapour_pressure() is absent (no vapour data, no climate)
\* while temp_min and temp_max are supplied, vapour_pressure_deficit() and
\* relative_humidity(T) are absent.
C8_AbsencePropagates ==
    (/\ last.op \in {"vapour_pressure_deficit", "relative_humidity"}
     /\ NoVapourData(LastDay)
     /\ IsNum(LastDay.temp_min) /\ IsNum(LastDay.temp_max))
    => IsNone(last.res)

MissingTemperature ==
    Raise("AttributeError",
          "Net longwave radiation cannot be calculated without min/max temperature")

\* C9: when temp_min or temp_max is not available, net_longwave_rad() fails
\* with MissingData, and net_radiation(), and eto() with wind and mean
\* temperature resolvable, fail with the same error kind and message.
C9_MissingTemperatureSurfaces ==
    (/\ last.op \in {"net_longwave_rad", "net_radiation", "eto"}
     /\ IsNone(LastDay.temp_min) \/ IsNone(LastDay.temp_max)
     /\ last.op = "eto" =>
           ~WindUnresolvable(LastDay) /\ ~TempMeanUnresolvable(LastDay))
    => last.res = MissingTemperature

\* The sunshine hours of the call do not fail their own range test
SunshineInRange(self, a) ==
    \/ ~Truthy(a.sunshine_hours)
    \/ ~CHECK_SUNSHINE_HOURS_RANGE
    \/ IsNum(a.sunshine_hours) /\ a.sunshine_hours.v <= daylight_hours(self).v

RadiationAboveClearSky(self) ==
    IsNum(self.radiation_s) /\ self.radiation_s.v > clear_sky_rad(self).v

IsOutOfRange(x) == IsRaise(x) /\ x.t = "ValueError"

\* C11: while CHECK_RADIATION_RANGE is on, whatever calls registered a record
\* and assigned its radiation_s, a radiation_s above the clear-sky radiation
\* is never the basis of a result: solar_radiation() fails with OutOfRange
\* (ValueError), and so do net_radiation() and, where it evaluates the
\* energy-balance formula (wind and mean temperature resolved), eto().
C11_OutOfRangeAboveClearSky ==
    \A n \in DOMAIN days :
        (CHECK_RADIATION_RANGE /\ RadiationAboveClearSky(days[n])) =>
            /\ IsOutOfRange(solar_radiation(days[n]))
            /\ IsOutOfRange(net_radiation(days[n]))
            /\ (/\ Truthy(wind_speed_2m(days[n]))
                /\ ~IsNone(interpolate_temp_mean(days[n])))
                  => IsOutOfRange(eto(days[n]))

\* The record holds sunshine hours n outside 0 <= n <= daylight_hours()
SunshineOutside(self) ==
    /\ IsNum(self.sunshine_hours)
    /\ \/ self.sunshine_hours.v < 0
       \/ self.sunshine_hours.v > daylight_hours(self).v

\* (0.25 + 0.50 * n / N) * Ra, to one decimal
AngstromValue(self) ==
    Num(RoundDiv(r_a(self).v
                 * (daylight_hours(self).v + 2 * self.sunshine_hours.v),
                 4 * daylight_hours(self).v))

\* C12: while CHECK_SUNSHINE_HOURS_RANGE is on, however the sunshine hours n
\* of a record arrived, solar_radiation() returns no Angstrom value of an n
\* outside 0 <= n <= daylight_hours(): it fails with ValueError (or returns the
\* supplied radiation_s, which reads no n). With the switch off, n above
\* daylight_hours() is accepted at computation (the Angstrom value of n is
\* returned) and at registration (day_entry stores n and succeeds, unless the
\* radiation_s of the same call is out of range).
C12_SunshineRange ==
    /\ \A n \in DOMAIN days :
          /\ (CHECK_SUNSHINE_HOURS_RANGE /\ SunshineOutside(days[n])) =>
                \/ IsOutOfRange(solar_radiation(days[n]))
                \/ /\ Truthy(days[n].radiation_s)
                   /\ solar_radiation(days[n]) = days[n].radiation_s
          /\ (/\ ~CHECK_SUNSHINE_HOURS_RANGE
              /\ IsNum(days[n].sunshine_hours)
              /\ days[n].sunshine_hours.v > daylight_hours(days[n]).v
              /\ ~Truthy(days[n].radiation_s)) =>
                solar_radiation(days[n]) = AngstromValue(days[n])
    /\ (/\ last.op = "day_entry" /\ last.n # 0
        /\ ~CHECK_SUNSHINE_HOURS_RANGE
        /\ IsNum(last.args.sunshine_hours)
        /\ last.args.sunshine_hours.v > daylight_hours(LastDay).v) =>
          \/ /\ last.res = None
             /\ LastDay.sunshine_hours = last.args.sunshine_hours
          \/ last.res = Raise("ValueError", "Radiation out of range")

\* A record came to hold sunshine hours above the daylight hours of its day
\* and no radiation_s, the switch is on, and solar_radiation() fails.
C12_AboveDaylightHeld ==
    /\ CHECK_SUNSHINE_HOURS_RANGE
    /\ \E n \in DOMAIN days :
          /\ IsNum(days[n].sunshine_hours)
          /\ days[n].sunshine_hours.v > daylight_hours(days[n]).v
          /\ IsNone(days[n].radiation_s)
          /\ IsOutOfRange(solar_radiation(days[n]))

\* The day number of a call is invalid: an integer outside 1..366, neither an
\* integer nor a string, or a string the pattern does not parse
InvalidDayNumber(day_number, date_template) ==
    \/ day_number.type = "int" /\ (day_number.v < 1 \/ day_number.v > 366)
    \/ day_number.type \notin {"int", "str"}
    \/ day_number.type = "str" /\ strptime(day_number.s, date_template) = <<>>

IsInvalidArgument(x) == IsRaise(x) /\ x.t \in {"TypeError", "ValueError"}

\* C13: a day_entry call with an invalid day number fails with InvalidArgument
\* (TypeError or ValueError) and leaves the station's registry unchanged.
C13_InvalidDayNumberRejected ==
    [][(/\ ops' = ops + 1
        /\ last'.op = "day_entry"
        /\ InvalidDayNumber(last'.day_number, last'.date_template))
       => (IsInvalidArgument(last'.res) /\ days' = days)]_vars

\* day_entry was called with an invalid day number on a station that holds a
\* record, and failed.
C13_RejectedWithRecords ==
    /\ last.op = "day_entry"
    /\ InvalidDayNumber(last.day_number, last.date_template)
    /\ IsInvalidArgument(last.res)
    /\ DOMAIN days # {}

\* The arguments the claim lets through: a float latitude in [-90.0, 90.0]
\* and an integer altitude >= 0
ValidStationArgs(latitude, altitude) ==
    /\ latitude.type = "float"
    /\ ~IsNaNArg(latitude) /\ latitude.v >= -9000 /\ latitude.v <= 9000
    /\ altitude.type = "int" /\ altitude.v >= 0

\* C14: constructing a Station succeeds if and only if latitude is a float in
\* [-90.0, 90.0] and altitude is an integer >= 0, and otherwise fails with
\* InvalidArgument; a constructed station has an empty registry, anemometer
\* height 2 unless given, a default Climate (interior, arid, average wind 2.0,
\* dew-point depression 2, krs 0.16) and a default Crop.
C14_StationConstruction ==
    last.op = "Station" =>
        /\ last.res = None <=> ValidStationArgs(last.latitude, last.altitude)
        /\ last.res # None => IsInvalidArgument(last.res)
        /\ last.res = None =>
              /\ days = EmptyDays
              /\ last.anemometer_height = DefaultArg
                    => station.anemometer_height = 2
              /\ last.anemometer_height # DefaultArg
                    => station.anemometer_height = last.anemometer_height.v
              /\ climates[station.climate] =
                    [interior_location |-> TRUE, coastal_location |-> FALSE,
                     island_location |-> FALSE, arid_climate |-> TRUE,
                     humid_climate |-> FALSE, dew_point_difference |-> 200,
                     average_wind_speed |-> 20, k_rs |-> 16]
              /\ station.ref_crop =
                    [resistance_a |-> 208, albedo |-> 23, height |-> 12]

Supplied(x) == ~IsNone(x)

\* Every raw field actual_vapour_pressure() reads is absent or a non-zero number
NonZeroVapourFields(self) ==
    \A x \in {self.vapour_pressure, self.temp_dry, self.temp_wet,
              self.humidity_min, self.humidity_max, self.humidity_mean,
              self.temp_min, self.temp_max, self.temp_dew} :
        IsNone(x) \/ (IsNum(x) /\ x.v # 0)

\* The actual vapour pressure by the order of the claim
VapourPressureInOrder(self) ==
    IF Supplied(self.vapour_pressure) THEN self.vapour_pressure
    ELSE IF Supplied(self.temp_dry) /\ Supplied(self.temp_wet)
    THEN Num(RoundDiv(SvpTable[self.temp_wet.v] * 100000
                      - psychrometric_constant(self).v
                        * (self.temp_dry.v - self.temp_wet.v), 100000))
    ELSE IF /\ Supplied(self.humidity_min) /\ Supplied(self.humidity_max)
            /\ Supplied(self.temp_min) /\ Supplied(self.temp_max)
    THEN Num(RoundDiv(SvpTable[self.temp_min.v] * self.humidity_max.v
                      + SvpTable[self.temp_max.v] * self.humidity_min.v, 200))
    ELSE IF Supplied(self.humidity_max) /\ Supplied(self.temp_min)
    THEN Num(RoundDiv(SvpTable[self.temp_min.v] * self.humidity_max.v, 100))
    ELSE IF /\ Supplied(self.humidity_mean)
            /\ Supplied(self.temp_min) /\ Supplied(self.temp_max)
    THEN Num(RoundDiv(self.humidity_mean.v
                      * (SvpTable[self.temp_max.v] + SvpTable[self.temp_min.v]),
                      200))
    ELSE IF IsNum(dew_point(self)) THEN Num(SvpTable[dew_point(self).v])
    ELSE None

\* C15: for every combination of supplied non-zero raw fields,
\* actual_vapour_pressure() is the first that applies of: the supplied
\* vapour_pressure; the psychrometric formula (temp_dry and temp_wet);
\* humidity_min and humidity_max with temp_min and temp_max; humidity_max with
\* temp_min; humidity_mean with temp_min and temp_max; the saturation vapour
\* pressure at the dew point; and otherwise it is absent.
C15_VapourPressureOrder ==
    (last.op = "actual_vapour_pressure" /\ NonZeroVapourFields(LastDay))
    => last.res = VapourPressureInOrder(LastDay)

\* C16: wind_speed_2m() is a supplied non-zero wind_speed itself when the
\* anemometer height is 2, and wind_speed * 4.87 / ln(67.8 * height - 5.42)
\* to one decimal when it is not; with no wind speed supplied it is the
\* average wind speed of the station's climate, and absent when the station
\* has no climate.
C16_WindSpeedOrder ==
    (/\ last.op = "wind_speed_2m"
     /\ \/ IsNone(LastDay.wind_speed)
        \/ IsNum(LastDay.wind_speed) /\ LastDay.wind_speed.v # 0)
    => last.res =
          IF Supplied(LastDay.wind_speed)
          THEN IF station.anemometer_height = 2 THEN LastDay.wind_speed
               ELSE Num(RoundDiv(LastDay.wind_speed.v
                                 * WindProfileTable[station.anemometer_height],
                                 100000))
          ELSE IF station.climate # NoClimate
          THEN Num(climates[station.climate].average_wind_speed)
          ELSE None

\* wind_speed_2m() was called on a record with wind speed 3.2 at a station
\* whose anemometer stands at 10 m, and returned 2.4.
C16_CorrectedFromTenMetres ==
    /\ last.op = "wind_speed_2m"
    /\ station.anemometer_height = 10
    /\ LastDay.wind_speed = Num(32)
    /\ last.res = Num(24)

\* No vapour pressure, psychrometric or humidity data: nothing ranks above the
\* dew point in actual_vapour_pressure()
NoHigherPriorityData(self) ==
    /\ IsNone(self.vapour_pressure)
    /\ IsNone(self.temp_dry) /\ IsNone(self.temp_wet)
    /\ IsNone(self.humidity_min) /\ IsNone(self.humidity_max)
    /\ IsNone(self.humidity_mean)

\* C17: dew_point() is the supplied temp_dew; otherwise temp_min minus the
\* climate's dew-point depression when temp_min is supplied and the record has
\* a climate; otherwise it is None, the absence value of the other cascades,
\* not False and not 0. When dew_point() is a number, 0 included, and no
\* higher-priority data is supplied, actual_vapour_pressure() is the
\* saturation vapour pressure at that dew point.
C17_DewPointCascade ==
    /\ last.op = "dew_point" =>
          last.res =
              IF Supplied(LastDay.temp_dew) THEN LastDay.temp_dew
              ELSE IF Supplied(LastDay.temp_min) /\ LastDay.climate # NoClimate
              THEN Num(LastDay.temp_min.v
                       - climates[LastDay.climate].dew_point_difference)
              ELSE None
    /\ (/\ last.op = "actual_vapour_pressure"
        /\ NoHigherPriorityData(LastDay)
        /\ IsNum(dew_point(LastDay)))
          => last.res = Num(SvpTable[dew_point(LastDay).v])

\* The number of the flags fs that are set in the Climate c
FlagsSet(c, fs) == Cardinality({f \in fs : c[f]})

TerrainFlags == {"interior_location", "coastal_location", "island_location"}

HumidityFlags == {"arid_climate", "humid_climate"}

\* One terrain, one humidity regime, and the coefficients they determine
ClimateConsistent(c) ==
    /\ FlagsSet(c, TerrainFlags) = 1
    /\ FlagsSet(c, HumidityFlags) = 1
    /\ c.k_rs = IF c.interior_location THEN 16 ELSE 19
    /\ c.dew_point_difference = IF c.arid_climate THEN 200 ELSE 0

\* The fields of a Climate that the mutator m may change
MutatorWrites(m) ==
    IF m \in {"light_winds", "moderate_winds", "strong_winds"}
    THEN {"average_wind_speed"}
    ELSE IF m \in {"arid", "humid"}
    THEN HumidityFlags \cup {"dew_point_difference"}
    ELSE TerrainFlags \cup {"k_rs"}

\* C18: after construction and after any sequence of Climate mutator calls,
\* every Climate has exactly one terrain flag and exactly one humidity flag
\* set, k_rs 0.16 if interior and 0.19 if coastal or island, and
\* dew_point_difference 2 if arid and 0 if humid; a wind mutator changes only
\* average_wind_speed, a terrain mutator only the terrain flags and k_rs, a
\* humidity mutator only the humidity flags and dew_point_difference; and each
\* mutator returns the Climate it was called on.
C18_ClimateSelectors ==
    /\ [](\A i \in DOMAIN climates : ClimateConsistent(climates[i]))
    /\ [][(ops' = ops + 1 /\ last'.op \in Mutators) =>
            /\ last'.res = station.climate
            /\ station' = station
            /\ DOMAIN climates' = DOMAIN climates
            /\ \A i \in DOMAIN climates, f \in DOMAIN Climate :
                  (i # station.climate \/ f \notin MutatorWrites(last'.op))
                     => climates'[i][f] = climates[i][f]]_vars

\* island() was called on a humid climate: the climate is now island and
\* humid, with k_rs 0.19 and no dew-point depression.
C18_HumidIsland ==
    /\ last.op = "island"
    /\ climates[last.res].island_location
    /\ climates[last.res].humid_climate
    /\ climates[last.res].k_rs = 19
    /\ climates[last.res].dew_point_difference = 0

\* C19: a call of an accessor of a record, whether it returns or fails, changes
\* no raw field of the record, nor the station, its registry, its climate or
\* its crop, nor the switches; so the same call made again on the record as
\* it stands gives the outcome the call gave.
C19_AccessorsArePure ==
    [][last'.op \in Accessors =>
          /\ UNCHANGED <<station, climates, days, CHECK_RADIATION_RANGE,
                         CHECK_SUNSHINE_HOURS_RANGE>>
          /\ Apply(last'.op, days'[last'.n]) = last'.res]_vars

\* eto() was called on a record and returned an energy-balance value, which
\* is what eto() on the record as it stands returns.
C19_EtoReturned ==
    /\ last.op = "eto"
    /\ last.res.k = "term" /\ last.res.f = "eto"
    /\ eto(LastDay) = last.res

\* The ordinal of the date <<y, m, d>> within its year: the number of dates of
\* the year y from January 1 to the date, both included
Ordinal(y, m, d) ==
    Cardinality({md \in (1..12) \X (1..31) :
                    /\ md[2] <= DaysInMonth(y, md[1])
                    /\ md[1] < m \/ (md[1] = m /\ md[2] <= d)})

\* C20: a day_entry call given a date string its pattern parses registers the
\* record under the date's ordinal within its own year, a number in 1..366
\* (January 1 gives 1; "2020-08-16", and "08/16/2020" with %m/%d/%Y, give
\* 229), and the record and the outcome of the call are those of the call
\* with that integer day number and the same keyword arguments.
C20_DateStringIsOrdinal ==
    (/\ last.op = "day_entry"
     /\ last.day_number.type = "str"
     /\ strptime(last.day_number.s, last.date_template) # <<>>) =>
        LET dt1 == strptime(last.day_number.s, last.date_template)
        IN  /\ last.n = Ordinal(dt1[1], dt1[2], dt1[3])
            /\ last.n \in 1..366
            /\ last.day_number.s = "2020-01-01" => last.n = 1
            /\ last.day_number.s \in {"2020-08-16", "08/16/2020"} => last.n = 229
            /\ last.n \in DOMAIN days
            /\ days[last.n].day_number = last.n
            /\ days[last.n] = day_entry_record(last.n, last.args).day
            /\ last.res = day_entry_record(last.n, last.args).res

\* day_entry("08/16/2020", "%m/%d/%Y") returned, and the record is registered
\* under day number 229.
C20_AmericanDate ==
    /\ last.op = "day_entry"
    /\ last.day_number = StrArg("08/16/2020")
    /\ last.date_template = "%m/%d/%Y"
    /\ last.res = None
    /\ 229 \in DOMAIN days
    /\ days[229].day_number = 229

\* C21: after any sequence of successful and failed day_entry calls, every key
\* k of the station's registry is an integer in 1..366, the record stored
\* under k has day_number = k, and the record's station is the station that
\* owns the registry.
C21_RegistryKeys ==
    \A k \in DOMAIN days :
        /\ k \in 1..366
        /\ days[k].day_number = k
        /\ days[k].station = station.id

\* Days 1 and 366 are registered and a day_entry call with the float 365 has
\* just been rejected.
C21_AfterRejectedFloat ==
    /\ last.op = "day_entry"
    /\ last.day_number = FloatArg(365)
    /\ IsRaise(last.res)
    /\ DOMAIN days = {1, 366}

\* The raw field f is supplied by the keyword arguments a of a day_entry call
SuppliedByCall(a, f) == f \in DOMAIN a /\ ~IsNone(a[f])

\* C22: a successful day_entry for a day number that is already registered
\* replaces the registry entry with a fresh record: every raw field the call
\* does not supply is absent on the new record, the entries of all other day
\* numbers are unchanged, and the registry still holds one record for each of
\* the day numbers it held.
C22_ReRegistrationIsFresh ==
    [][(/\ ops' = ops + 1
        /\ last'.op = "day_entry"
        /\ last'.res = None
        /\ last'.n \in DOMAIN days) =>
           /\ \A f \in RawFields :
                 ~SuppliedByCall(last'.args, f) => IsNone(days'[last'.n][f])
           /\ days'[last'.n].climate = station.climate
           /\ \A k \in DOMAIN days \ {last'.n} : days'[k] = days[k]
           /\ DOMAIN days' = DOMAIN days]_vars

\* Day 229 was registered when day_entry(229) was called without keyword
\* arguments, and the call has replaced its record: the only record of the
\* registry has no raw field.
C22_ReplacedAssignedRecord ==
    /\ last.op = "day_entry"
    /\ last.registered
    /\ last.res = None
    /\ last.n = 229
    /\ last.args = NoArgs
    /\ DOMAIN days = {229}
    /\ \A f \in RawFields : IsNone(days[229][f])

\* The raw fields day_entry assigns from its keyword arguments without a test
ArgumentFields ==
    <<"temp_min", "temp_max", "temp_mean", "wind_speed", "humidity_min",
      "humidity_max", "humidity_mean">>

\* self after self.<f> = a[f] for the first i of these fields
RECURSIVE AssignFields(_, _, _)
AssignFields(self, a, i) ==
    IF i = 0 THEN self
    ELSE SetField(AssignFields(self, a, i - 1), ArgumentFields[i],
                  a[ArgumentFields[i]])

\* The record of the last day_entry call, had the day been registered with no
\* keyword arguments and the call's values then assigned to its attributes
AssignedAfterwards ==
    AssignFields(DayEntry(last.n, station), last.args, Len(ArgumentFields))

\* C23: a day registered with temp_min, temp_max, temp_mean, wind_speed,
\* humidity_min, humidity_max or humidity_mean passed to day_entry (and no
\* radiation or sunshine argument) has the same record, and so the same eto()
\* and other derived values, as the day registered with no fields and the same
\* values then assigned to the record's attributes.
C23_ArgumentsAreAssignments ==
    (/\ last.op = "day_entry"
     /\ last.n # 0
     /\ IsNone(last.args.radiation_s)
     /\ IsNone(last.args.sunshine_hours)) =>
        /\ last.res = None
        /\ days[last.n] = AssignedAfterwards
        /\ \A f \in Accessors :
              Apply(f, days[last.n]) = Apply(f, AssignedAfterwards)

\* day_entry(229) returned with all seven fields passed, two of them 0, and
\* the record holds them.
C23_SevenFieldsPassed ==
    /\ last.op = "day_entry"
    /\ last.n = 229
    /\ last.res = None
    /\ \A i \in DOMAIN ArgumentFields : IsNum(last.args[ArgumentFields[i]])
    /\ days[229].temp_min = Num(0)
    /\ days[229].wind_speed = Num(0)
    /\ days[229].humidity_mean = Num(60)

NoRawFields(self) == \A f \in RawFields : IsNone(self[f])

\* The station has the climate its constructor gave it, unaltered
DefaultClimate ==
    station.climate # NoClimate /\ climates[station.climate] = Climate

\* The accessors that need none of the raw fields
NeedNoRawField ==
    {"relative_sun_distance", "solar_declination", "sunset_hour_angle", "r_a",
     "daylight_hours", "clear_sky_rad", "solar_radiation", "wind_speed_2m",
     "atmospheric_pressure", "psychrometric_constant"}

\* C24: MissingData is raised lazily and locally. day_entry never fails with
\* MissingData, and returns when it is given a valid day number and no field;
\* on a record with no raw field (default climate) each accessor that needs
\* none returns a value while eto() fails; and the failed eto() call changes the
\* value of none of these accessors, each of which returns it when called next.
C24_MissingDataIsLazy ==
    /\ [](/\ last.op = "day_entry" =>
                /\ ~IsMissingData(last.res)
                /\ (last.n # 0 /\ last.args = NoArgs) => last.res = None
          /\ (/\ last.op \in Accessors
              /\ NoRawFields(LastDay)
              /\ DefaultClimate) =>
                /\ last.op \in NeedNoRawField => IsValue(last.res)
                /\ last.op = "eto" => IsRaise(last.res))
    /\ [][\A n \in DOMAIN days :
             (/\ last'.op = "eto"
              /\ last'.n = n
              /\ IsRaise(last'.res)
              /\ NoRawFields(days[n])
              /\ DefaultClimate) =>
                 \A f \in NeedNoRawField :
                     Apply(f, days[n])' = Apply(f, days[n])]_vars
    /\ [][(/\ last.op = "eto"
           /\ IsRaise(last.res)
           /\ last'.op \in NeedNoRawField
           /\ last'.n = last.n
           /\ NoRawFields(days[last.n])
           /\ DefaultClimate) =>
              /\ IsValue(last'.res)
              /\ last'.res = Apply(last'.op, days[last.n])]_vars

SolarGeometry == {"sunset_hour_angle", "r_a", "daylight_hours", "clear_sky_rad"}

\* C25: for every day number in 1..366 and every station latitude in [-90, 90]
\* (and any altitude >= 0), sunset_hour_angle(), r_a(), daylight_hours() and
\* clear_sky_rad() return a value, and the argument of the arccosine of the
\* sunset hour angle lies in [-1, 1].
C25_SolarGeometryResolves ==
    (/\ last.op \in SolarGeometry
     /\ LastDay.day_number \in 1..366
     /\ station.latitude \in -9000..9000
     /\ station.altitude >= 0) =>
        /\ IsValue(last.res)
        /\ AcosArgumentTable[<<station.latitude, LastDay.day_number>>]
              \in -10000..10000

\* C26: whenever both are resolvable, actual_vapour_pressure() is less than
\* or equal to saturation_vapour_pressure(interpolate_temp_mean()), for every
\* combination of supplied raw fields (a supplied vapour_pressure and
\* humidities up to 100 % included).
C26_ActualBelowSaturation ==
    (/\ last.op = "actual_vapour_pressure"
     /\ IsNum(last.res)
     /\ IsNum(interpolate_temp_mean(LastDay))) =>
        last.res.v <= saturation_vapour_pressure(interpolate_temp_mean(LastDay)).v

\* C27: day_entry called with sunshine_hours = 0 records 0 sunshine hours on
\* the new record, so that solar_radiation() on it is what it is on the record
\* with 0 assigned to sunshine_hours: the Angstrom value 0.25 * Ra rather than
\* the n = N or Hargreaves-Samani estimate.
C27_ZeroSunshineRecorded ==
    (/\ last.op = "day_entry"
     /\ last.n # 0
     /\ last.args.sunshine_hours = Num(0)
     /\ ~Truthy(last.args.radiation_s)) =>
        /\ days[last.n].sunshine_hours = Num(0)
        /\ solar_radiation(days[last.n])
              = solar_radiation(SetField(days[last.n], "sunshine_hours", Num(0)))
        /\ solar_radiation(days[last.n])
              = Num(RoundDiv(25 * r_a(days[last.n]).v, 100))

\* The record holds sunshine hours above the daylight hours, and no radiation
SunshineAboveDaylight(self) ==
    /\ ~Truthy(self.radiation_s)
    /\ IsNum(self.sunshine_hours)
    /\ self.sunshine_hours.v > daylight_hours(self).v

RadiationAccessors == {"solar_radiation", "net_radiation", "eto"}

\* Every accessor of RadiationAccessors that has a value on self before the
\* step fails with OutOfRange after it
FailAfterwards(self) ==
    \A f \in RadiationAccessors :
        IsValue(Apply(f, self)) => IsOutOfRange(Apply(f, self)')

\* No accessor of RadiationAccessors that fails with OutOfRange on self before
\* the step does so after it, and solar_radiation has a value
ReturnAfterwards(self) ==
    \A f \in RadiationAccessors :
        IsOutOfRange(Apply(f, self)) =>
            /\ ~IsOutOfRange(Apply(f, self)')
            /\ f = "solar_radiation" => IsValue(Apply(f, self)')

\* C28: the two range switches are read at the time of each call and apply to
\* every registered record. On a record holding a radiation_s above the
\* clear-sky radiation (or sunshine_hours above the daylight hours),
\* solar_radiation(), net_radiation() and eto() fail with OutOfRange once the
\* switch is enabled and return values again once it is disabled, and the
\* assignment to a switch alters no record.
C28_SwitchesReadAtCall ==
    [][/\ last'.op \in {"set_check_radiation_range",
                        "set_check_sunshine_hours_range"} => days' = days
       /\ \A n \in DOMAIN days :
             /\ (/\ last'.op = "set_check_radiation_range"
                 /\ RadiationAboveClearSky(days[n])) =>
                   /\ (~CHECK_RADIATION_RANGE /\ CHECK_RADIATION_RANGE')
                         => FailAfterwards(days[n])
                   /\ (CHECK_RADIATION_RANGE /\ ~CHECK_RADIATION_RANGE')
                         => ReturnAfterwards(days[n])
             /\ (/\ last'.op = "set_check_sunshine_hours_range"
                 /\ SunshineAboveDaylight(days[n])) =>
                   /\ (~CHECK_SUNSHINE_HOURS_RANGE /\ CHECK_SUNSHINE_HOURS_RANGE')
                         => FailAfterwards(days[n])
                   /\ (CHECK_SUNSHINE_HOURS_RANGE /\ ~CHECK_SUNSHINE_HOURS_RANGE')
                         => ReturnAfterwards(days[n])]_vars

\* The record an identical station with the same climate settings holds for
\* the same day number once the raw fields of self are assigned to it
SameOnFreshStation(self) ==
    LET new == DayEntry(self.day_number, station)
    IN  [f \in DOMAIN self |-> IF f \in RawFields THEN self[f] ELSE new[f]]

\* C29: day records do not interfere. An assignment to a raw field of one
\* record, or a day_entry call for another day number, changes the outcome of
\* no accessor of a different record; and two records that agree on their raw
\* fields, day number, station latitude, altitude and anemometer height,
\* climate settings, crop settings and the two switches have the same derived
\* values.
C29_RecordsDoNotInterfere ==
    /\ [](\A n \in DOMAIN days, f \in Accessors :
             Apply(f, days[n]) = Apply(f, SameOnFreshStation(days[n])))
    /\ [][(/\ ops' = ops + 1
           /\ last'.op \in {"day_entry", "set_attribute"}) =>
              \A k \in DOMAIN days \ {last'.n} :
                  /\ k \in DOMAIN days'
                  /\ \A f \in Accessors :
                        Apply(f, days[k])' = Apply(f, days[k])]_vars

\* int(round((a + b) / 2, 0)) of two relative humidities in 1/1000 %
IntegerRoundedMean(a, b) == Num(RoundDiv(a.v + b.v, 2000))

\* C30: relative_humidity_mean() returns a supplied humidity_mean as it is (0
\* counts as supplied); otherwise, with humidity_min and humidity_max both
\* supplied, their mean rounded to 0 decimals; otherwise, with temp_min and
\* temp_max both supplied, the integer-rounded mean of
\* relative_humidity(temp_min) and relative_humidity(temp_max); otherwise it
\* is absent.
C30_RelativeHumidityMeanOrder ==
    last.op = "relative_humidity_mean" =>
        IF ~IsNone(LastDay.humidity_mean)
        THEN last.res = LastDay.humidity_mean
        ELSE IF ~IsNone(LastDay.humidity_min) /\ ~IsNone(LastDay.humidity_max)
        THEN last.res = Num(RoundDiv(LastDay.humidity_max.v
                                     + LastDay.humidity_min.v, 2))
        ELSE IF ~IsNone(LastDay.temp_min) /\ ~IsNone(LastDay.temp_max)
        THEN /\ IsNum(relative_humidity(LastDay, LastDay.temp_min))
             /\ IsNum(relative_humidity(LastDay, LastDay.temp_max))
             /\ last.res
                  = IntegerRoundedMean(
                        relative_humidity(LastDay, LastDay.temp_min),
                        relative_humidity(LastDay, LastDay.temp_max))
        ELSE IsNone(last.res)

====
